---- MODULE Spec2Model ----
(***************************************************************************)
(* Model of src/app.py, the Streamlit page of the eVTOL safety advisor.    *)
(*                                                                         *)
(* The page is a script that Streamlit runs from top to bottom when the    *)
(* page is loaded and again each time a slider is moved.  The state kept   *)
(* between runs is the slider values (widget state) and the cached model   *)
(* assets; everything else is recomputed by the run and shown on the page. *)
(*                                                                         *)
(* climb_rate is a float slider (-10.0 .. 10.0, step 0.01); it is held in  *)
(* hundredths of a m/s, so 8.0 is 800.  Probabilities are held in          *)
(* thousandths.                                                            *)
(***************************************************************************)
EXTENDS Integers, Sequences, FiniteSets

VARIABLES
    widgets,    \* the eight slider values (app.py 31-42), kept between runs
    model,      \* st.cache_resource: the classifier, once load_assets returned
    page,       \* what the last run of the script computed and showed
    ref         \* history: one earlier run, kept for comparison

vars == <<widgets, model, page, ref>>

(***************************************************************************)
(* Bounds of the model.                                                    *)
(***************************************************************************)
\* the class indices the classifier may return are -IndexSpan .. IndexSpan-1
IndexSpan == 4
\* at most this many sliders are away from their default value at a time
MaxMoved == 2

(***************************************************************************)
(* Program constants.                                                      *)
(***************************************************************************)
HIGH_CLIMB_LIMIT == 800
SINK_LIMIT == -500
LANDING_ALTITUDE == 30
LANDING_DESCENT == -300
PAYLOAD_LIMIT == 600
CEILING == 610
HEAT_LIMIT == 45
FREEZE_LIMIT == -10
SOC_RESERVE == 30
WIND_LIMIT == 15

\* st.sidebar.slider(label, min, max, value)
Sliders ==
    [payload       |-> [min |-> 0,     max |-> 800,  value |-> 500],
     altitude      |-> [min |-> 0,     max |-> 800,  value |-> 150],
     soc           |-> [min |-> 0,     max |-> 100,  value |-> 80],
     ambient_temp  |-> [min |-> -20,   max |-> 60,   value |-> 25],
     wind_speed    |-> [min |-> 0,     max |-> 35,   value |-> 5],
     climb_rate    |-> [min |-> -1000, max |-> 1000, value |-> 0],
     battery_temp  |-> [min |-> 20,    max |-> 90,   value |-> 35],
     thrust_demand |-> [min |-> 0,     max |-> 100,  value |-> 60]]

SliderNames == DOMAIN Sliders

classes == <<"Marginal", "Safe", "Unsafe">>

(***************************************************************************)
(* Optional values: a script variable that the run did not reach, or a     *)
(* page element that the run did not render, is None.                      *)
(***************************************************************************)
None == <<>>
Some(x) == <<x>>

(***************************************************************************)
(* input_data: the one-row frame handed to the classifier, columns in the  *)
(* order of the dict literal.                                              *)
(***************************************************************************)
input_data(w) ==
    <<w.altitude, w.wind_speed, w.payload, w.ambient_temp, w.soc,
      w.battery_temp, w.climb_rate, w.thrust_demand>>

(***************************************************************************)
(* Python list indexing: classes[i] takes i in -len .. len-1, counting     *)
(* from the end when i is negative, and raises IndexError otherwise.       *)
(***************************************************************************)
IndexInRange(seq, i) == -Len(seq) <= i /\ i < Len(seq)
ListItem(seq, i) == IF i >= 0 THEN seq[i + 1] ELSE seq[Len(seq) + i + 1]

\* the if / elif / else of the gauge
Gauge(label) ==
    IF label = "Unsafe"
    THEN [gauge_value |-> 15, gauge_color |-> "red", status_text |-> "UNSAFE"]
    ELSE IF label = "Marginal"
    THEN [gauge_value |-> 50, gauge_color |-> "orange", status_text |-> "MARGINAL"]
    ELSE [gauge_value |-> 85, gauge_color |-> "green", status_text |-> "SAFE"]

\* pd.DataFrame(probabilities, index=classes): row i is labelled classes[i]
ProbDf(p) == [i \in 1..Len(classes) |-> <<classes[i], p[i]>>]

(***************************************************************************)
(* The Active Alerts block.  a is the block's running state: the banners   *)
(* emitted so far and the active_alerts flag.                              *)
(***************************************************************************)
Emit(a, kind, tag) ==
    [banners |-> Append(a.banners, [kind |-> kind, tag |-> tag]),
     active_alerts |-> TRUE]

\* a rule that emits its banner and forgets to raise the flag
EmitNoFlag(a, kind, tag) ==
    [banners |-> Append(a.banners, [kind |-> kind, tag |-> tag]),
     active_alerts |-> a.active_alerts]

\* the flag is not reset: it keeps the value the previous run left
ActiveAlertsStale == [banners |-> <<>>, active_alerts |-> page.active_alerts]

\* active_alerts = False, and an empty column
ActiveAlertsStart == [banners |-> <<>>, active_alerts |-> FALSE]

ClimbRateRule(a, climb_rate) ==
    IF climb_rate > HIGH_CLIMB_LIMIT THEN Emit(a, "warning", "HIGH CLIMB RATE")
    ELSE IF climb_rate < SINK_LIMIT THEN Emit(a, "error", "SINK RATE")
    ELSE a

\* the hard-landing test chained to the climb-rate tests with elif
HardLandingElif(a, altitude, climb_rate) ==
    IF climb_rate > HIGH_CLIMB_LIMIT \/ climb_rate < SINK_LIMIT THEN a
    ELSE IF altitude < LANDING_ALTITUDE /\ climb_rate < LANDING_DESCENT
    THEN Emit(a, "error", "HARD LANDING") ELSE a

HardLandingRule(a, altitude, climb_rate) ==
    IF altitude < LANDING_ALTITUDE /\ climb_rate < LANDING_DESCENT
    THEN Emit(a, "error", "HARD LANDING") ELSE a

\* the overweight banner raised with st.warning
OverweightAsWarning(a, payload) ==
    IF payload > PAYLOAD_LIMIT THEN Emit(a, "warning", "OVERWEIGHT") ELSE a

OverweightRule(a, payload) ==
    IF payload > PAYLOAD_LIMIT THEN Emit(a, "error", "OVERWEIGHT") ELSE a

\* the ceiling test written with >=
AltitudeAtCeiling(a, altitude) ==
    IF altitude >= CEILING THEN Emit(a, "error", "ALTITUDE") ELSE a

AltitudeRule(a, altitude) ==
    IF altitude > CEILING THEN Emit(a, "error", "ALTITUDE") ELSE a

\* two separate ifs, the second with its comparison turned round
AmbientTempTwoIfs(a, ambient_temp) ==
    LET h == IF ambient_temp > HEAT_LIMIT THEN Emit(a, "error", "HEAT CRITICAL") ELSE a
    IN  IF ambient_temp > FREEZE_LIMIT THEN Emit(h, "error", "FREEZING") ELSE h

AmbientTempRule(a, ambient_temp) ==
    IF ambient_temp > HEAT_LIMIT THEN Emit(a, "error", "HEAT CRITICAL")
    ELSE IF ambient_temp < FREEZE_LIMIT THEN Emit(a, "error", "FREEZING")
    ELSE a

ReserveRule(a, soc) ==
    IF soc < SOC_RESERVE THEN Emit(a, "warning", "RESERVE") ELSE a

\* the wind test without active_alerts = True
WindRuleNoFlag(a, wind_speed) ==
    IF wind_speed > WIND_LIMIT THEN EmitNoFlag(a, "warning", "WIND") ELSE a

WindRule(a, wind_speed) ==
    IF wind_speed > WIND_LIMIT THEN Emit(a, "warning", "WIND") ELSE a

\* if not active_alerts: st.success(...)
NominalRule(a) ==
    IF ~a.active_alerts
    THEN [a EXCEPT !.banners = Append(a.banners, [kind |-> "success", tag |-> "NOMINAL"])]
    ELSE a

ActiveAlerts(start, w) ==
    LET a1 == ClimbRateRule(start, w.climb_rate)
        a2 == HardLandingRule(a1, w.altitude, w.climb_rate)
        a3 == OverweightRule(a2, w.payload)
        a4 == AltitudeRule(a3, w.altitude)
        a5 == AmbientTempRule(a4, w.ambient_temp)
        a6 == ReserveRule(a5, w.soc)
        a7 == WindRule(a6, w.wind_speed)
    IN  NominalRule(a7)

\* the alerts reconciled with the class: an Unsafe prediction raises an alert
Column2Reconciled(start, w, label, p) ==
    [prob_df |-> ProbDf(p),
     alerts |-> ActiveAlerts(IF label = "Unsafe"
                             THEN Emit(start, "error", "AI UNSAFE") ELSE start, w)]

\* with col2: the probability chart, then the alerts
Column2(start, w, label, p) ==
    [prob_df |-> ProbDf(p), alerts |-> ActiveAlerts(start, w)]

(***************************************************************************)
(* The classifier is a black box unpickled by load_assets.  One call of    *)
(* predict / predict_proba either raises or returns a class index and a    *)
(* probability vector.                                                     *)
(***************************************************************************)
ProbaValues == {<<100, 800, 100>>, <<300, 0, 700>>}
IndexValues == (0 - IndexSpan) .. (IndexSpan - 1)
Raises == [raises |-> TRUE, index |-> 0, proba |-> <<0, 0, 0>>]
Returns(i, p) == [raises |-> FALSE, index |-> i, proba |-> p]

\* An arbitrary classifier: any call may raise or return any index.  Its
\* probability vector is only carried to the chart, so one vector stands for
\* all; the deterministic classifiers below return different ones.
Responses == {Raises} \cup {Returns(i, <<100, 800, 100>>) : i \in IndexValues}
AnyClassifier == [kind |-> "any"]

\* Deterministic classifiers: the answer is a function of the features, here
\* of whether one feature is above its default.
StumpResponses ==
    {Raises, Returns(1, <<100, 800, 100>>), Returns(2, <<300, 0, 700>>)}
StumpFields == {"battery_temp", "payload"}
Classifiers ==
    [kind : {"stump"}, field : StumpFields, low : StumpResponses, high : StumpResponses]

\* what model.predict / model.predict_proba may do on the row of w
Predict(m, w) ==
    IF m.kind = "any" THEN Responses
    ELSE {IF w[m.field] <= Sliders[m.field].value THEN m.low ELSE m.high}

(***************************************************************************)
(* One run of the script.                                                  *)
(***************************************************************************)
\* the page of a run that got to the end
Rendered(index, proba, label, g, c2) ==
    [outcome |-> "ok",
     prediction_index |-> Some(index),
     probabilities |-> Some(proba),
     prediction_label |-> Some(label),
     gauge_value |-> Some(g.gauge_value),
     gauge_color |-> Some(g.gauge_color),
     status_text |-> Some(g.status_text),
     prob_df |-> Some(c2.prob_df),
     banners |-> c2.alerts.banners,
     active_alerts |-> c2.alerts.active_alerts]

\* the page of a run that ended early: nothing of the two columns is shown
Blank(how) ==
    [outcome |-> how,
     prediction_index |-> None, probabilities |-> None,
     prediction_label |-> None, gauge_value |-> None,
     gauge_color |-> None, status_text |-> None,
     prob_df |-> None, banners |-> <<>>, active_alerts |-> FALSE]

\* from classes[prediction_index] to the end of the script
Classify(w, index, proba) ==
    IF ~IndexInRange(classes, index)                 \* IndexError
    THEN [Blank("exception") EXCEPT !.prediction_index = Some(index),
                                    !.probabilities = Some(proba)]
    ELSE Rendered(index, proba, ListItem(classes, index),
                  Gauge(ListItem(classes, index)),
                  Column2(ActiveAlertsStart, w, ListItem(classes, index), proba))

\* from input_data to the end of the script, the classifier answering resp
Script(w, resp) ==
    IF resp.raises
    THEN Blank("exception")                          \* predict raised
    ELSE Classify(w, resp.index, resp.proba)

\* load_assets under st.cache_resource: the cached value if there is one, else
\* the unpickled files, else FileNotFoundError (None)
LoadAssets(cache, found, m) ==
    IF cache # None THEN cache ELSE IF found THEN Some(m) ELSE None

RunScript(w, found, m) ==
    LET loaded == LoadAssets(model, found, m)
    IN  /\ model' = loaded
        /\ IF loaded = None
           THEN page' = Blank("stopped")             \* st.error(...); st.stop()
           ELSE \E resp \in Predict(loaded[1], w) : page' = Script(w, resp)

(***************************************************************************)
(* Slider values of the model: each slider's default, the values of the    *)
(* documented examples, and each threshold with the next value past it.    *)
(***************************************************************************)
Above(t) == {t, t + 1}
Below(t) == {t, t - 1}
InSlider(name, S) == {v \in S : Sliders[name].min <= v /\ v <= Sliders[name].max}

Values ==
    [payload       |-> InSlider("payload", {500, 700} \cup Above(PAYLOAD_LIMIT)),
     altitude      |-> InSlider("altitude",
                          {150, 20, 650} \cup Below(LANDING_ALTITUDE) \cup Above(CEILING)),
     soc           |-> InSlider("soc", {80} \cup Below(SOC_RESERVE)),
     ambient_temp  |-> InSlider("ambient_temp",
                          {25} \cup Above(HEAT_LIMIT) \cup Below(FREEZE_LIMIT)),
     wind_speed    |-> InSlider("wind_speed", {5} \cup Above(WIND_LIMIT)),
     climb_rate    |-> InSlider("climb_rate",
                          {0, -400} \cup Above(HIGH_CLIMB_LIMIT) \cup Below(SINK_LIMIT)
                              \cup Below(LANDING_DESCENT)),
     battery_temp  |-> InSlider("battery_temp", {35, 90}),
     thrust_demand |-> InSlider("thrust_demand", {60, 100})]

\* the smaller set used when two runs are compared: the default and one
\* value that raises an alert (or, for the two display-only sliders, differs)
RefValues ==
    [payload       |-> InSlider("payload", {500, 700}),
     altitude      |-> InSlider("altitude", {150, 650}),
     soc           |-> InSlider("soc", {80, 29}),
     ambient_temp  |-> InSlider("ambient_temp", {25, -11}),
     wind_speed    |-> InSlider("wind_speed", {5, 16}),
     climb_rate    |-> InSlider("climb_rate", {0, 801}),
     battery_temp  |-> InSlider("battery_temp", {35, 90}),
     thrust_demand |-> InSlider("thrust_demand", {60, 100})]

Defaults == [n \in SliderNames |-> Sliders[n].value]

\* before the first run: nothing cached, nothing shown
Init ==
    /\ widgets = Defaults
    /\ model = None
    /\ page = Blank("not_run")
    /\ ref = None

\* the page is loaded or reloaded: the script runs on the current widget state
Rerun(found, m) ==
    /\ widgets' = widgets
    /\ RunScript(widgets, found, m)

\* the sliders are on the page once a run got past st.stop()
SlidersShown == page.outcome \in {"ok", "exception"}

Moved(w) == {n \in SliderNames : w[n] # Defaults[n]}

\* a slider is moved: its value changes and the script runs again
Move(name, v) ==
    /\ SlidersShown
    /\ v # widgets[name]
    /\ LET w == [widgets EXCEPT ![name] = v]
       IN  /\ Cardinality(Moved(w)) <= MaxMoved
           /\ widgets' = w
           /\ RunScript(w, TRUE, AnyClassifier)

MovePayload(v) == Move("payload", v)
MoveAltitude(v) == Move("altitude", v)
MoveSoc(v) == Move("soc", v)
MoveAmbientTemp(v) == Move("ambient_temp", v)
MoveWindSpeed(v) == Move("wind_speed", v)
MoveClimbRate(v) == Move("climb_rate", v)
MoveBatteryTemp(v) == Move("battery_temp", v)
MoveThrustDemand(v) == Move("thrust_demand", v)

\* Sessions with an arbitrary classifier.
Next ==
    \/ \E found \in BOOLEAN : Rerun(found, AnyClassifier) /\ UNCHANGED ref
    \/ \E v \in Values.payload : MovePayload(v) /\ UNCHANGED ref
    \/ \E v \in Values.altitude : MoveAltitude(v) /\ UNCHANGED ref
    \/ \E v \in Values.soc : MoveSoc(v) /\ UNCHANGED ref
    \/ \E v \in Values.ambient_temp : MoveAmbientTemp(v) /\ UNCHANGED ref
    \/ \E v \in Values.wind_speed : MoveWindSpeed(v) /\ UNCHANGED ref
    \/ \E v \in Values.climb_rate : MoveClimbRate(v) /\ UNCHANGED ref
    \/ \E v \in Values.battery_temp : MoveBatteryTemp(v) /\ UNCHANGED ref
    \/ \E v \in Values.thrust_demand : MoveThrustDemand(v) /\ UNCHANGED ref

Spec == Init /\ [][Next]_vars

(***************************************************************************)
(* Sessions with a deterministic classifier, in which one run that called  *)
(* the classifier is remembered (ref) so that later runs can be compared   *)
(* with it.  ref.other records that a run on other slider values came in   *)
(* between.                                                                *)
(***************************************************************************)
Remember ==
    \/ /\ ref = None
       /\ ref' = None
    \/ /\ ref = None
       /\ page'.outcome \in {"ok", "exception"}
       /\ ref' = Some([widgets |-> widgets', page |-> page', other |-> FALSE])
    \/ /\ ref # None
       /\ ref' = Some([ref[1] EXCEPT !.other = @ \/ widgets' # ref[1].widgets])

\* what is on disk when the script runs: once loaded, the cache answers
OnDisk == IF model = None THEN BOOLEAN \X Classifiers ELSE {<<TRUE, model[1]>>}

NextRef ==
    \/ \E d \in OnDisk : Rerun(d[1], d[2]) /\ Remember
    \/ \E v \in RefValues.payload : MovePayload(v) /\ Remember
    \/ \E v \in RefValues.altitude : MoveAltitude(v) /\ Remember
    \/ \E v \in RefValues.soc : MoveSoc(v) /\ Remember
    \/ \E v \in RefValues.ambient_temp : MoveAmbientTemp(v) /\ Remember
    \/ \E v \in RefValues.wind_speed : MoveWindSpeed(v) /\ Remember
    \/ \E v \in RefValues.climb_rate : MoveClimbRate(v) /\ Remember
    \/ \E v \in RefValues.battery_temp : MoveBatteryTemp(v) /\ Remember
    \/ \E v \in RefValues.thrust_demand : MoveThrustDemand(v) /\ Remember

SpecRef == Init /\ [][NextRef]_vars

(***************************************************************************)
(* The claims.  The rules are restated here from the specification's       *)
(* table, independently of the script above.                               *)
(***************************************************************************)
Ran == page.outcome = "ok"
Alerts == {page.banners[i] : i \in {j \in 1..Len(page.banners) : page.banners[j].kind # "success"}}
Fired == {b.tag : b \in Alerts}
NominalShown == \E i \in 1..Len(page.banners) : page.banners[i].kind = "success"
AtDefault(names) == \A n \in names : widgets[n] = Defaults[n]

RuleHolds(w) ==
    {t \in {"HIGH CLIMB RATE"} : w.climb_rate > 800}
    \cup {t \in {"SINK RATE"} : w.climb_rate < -500}
    \cup {t \in {"HARD LANDING"} : w.altitude < 30 /\ w.climb_rate < -300}
    \cup {t \in {"OVERWEIGHT"} : w.payload > 600}
    \cup {t \in {"ALTITUDE"} : w.altitude > 610}
    \cup {t \in {"HEAT CRITICAL"} : w.ambient_temp > 45}
    \cup {t \in {"FREEZING"} : w.ambient_temp < -10}
    \cup {t \in {"RESERVE"} : w.soc < 30}
    \cup {t \in {"WIND"} : w.wind_speed > 15}

\* C1: in every run that reaches the alert block, the alerts shown are
\* exactly the rules whose condition holds on the slider values, each shown
\* once; at altitude 20 and climb rate -4.0 the hard-landing alert is shown
\* and the sink-rate alert is not.
C1_AlertsAreExactlyTheRulesThatHold ==
    Ran =>
        /\ Fired = RuleHolds(widgets)
        /\ Cardinality(Alerts) = Cardinality(Fired)
        /\ Len(page.banners) = Cardinality(Alerts) + (IF NominalShown THEN 1 ELSE 0)
        /\ (widgets.altitude = 20 /\ widgets.climb_rate = -400)
              => ("HARD LANDING" \in Fired /\ "SINK RATE" \notin Fired)

C1_Witness ==
    /\ Ran
    /\ widgets.altitude = 20 /\ widgets.climb_rate = -400
    /\ AtDefault(SliderNames \ {"altitude", "climb_rate"})
    /\ Fired = {"HARD LANDING"}

\* C2: the label is the table's entry for the class index (0 Marginal,
\* 1 Safe, 2 Unsafe), it is always one of the three, index 2 yields Unsafe
\* and no other index yields Unsafe.
C2_LabelFollowsTheTable ==
    (page.prediction_index # None /\ page.prediction_label # None) =>
        LET i == page.prediction_index[1]
            l == page.prediction_label[1]
        IN  /\ l \in {"Safe", "Marginal", "Unsafe"}
            /\ (i = 0) => (l = "Marginal")
            /\ (i = 1) => (l = "Safe")
            /\ (i = 2) <=> (l = "Unsafe")

\* the part of C2 about the indices of the table
LabelTableOnValidIndices ==
    (page.prediction_index # None /\ page.prediction_index[1] \in 0..2) =>
        /\ Ran
        /\ page.prediction_label =
              Some(CASE page.prediction_index[1] = 0 -> "Marginal"
                     [] page.prediction_index[1] = 1 -> "Safe"
                     [] page.prediction_index[1] = 2 -> "Unsafe")

\* C3: when the classifier raises or returns an index outside {0,1,2}, the
\* run ends in an error and shows no label, no gauge value and no status text.
C3_FailedClassificationShowsNoClass ==
    (page.outcome \in {"ok", "exception"}
        /\ (page.prediction_index = None \/ page.prediction_index[1] \notin 0..2)) =>
        /\ page.outcome = "exception"
        /\ page.prediction_label = None
        /\ page.gauge_value = None
        /\ page.status_text = None

\* C5: in every run that reaches the alert block, the nominal status is shown
\* if and only if no alert is; with every slider at its default the column
\* holds the nominal status alone.
C5_NominalIffNoAlert ==
    Ran =>
        /\ NominalShown <=> (Fired = {})
        /\ page.active_alerts <=> (Fired # {})
        /\ AtDefault(SliderNames) =>
              page.banners = <<[kind |-> "success", tag |-> "NOMINAL"]>>

C5_Witness ==
    /\ Ran
    /\ AtDefault(SliderNames)
    /\ NominalShown /\ Fired = {}

\* C6: the high-climb-rate and sink-rate alerts are never shown together, nor
\* are the heat-critical and freezing alerts.
C6_ExclusivePairsNeverTogether ==
    /\ ~({"HIGH CLIMB RATE", "SINK RATE"} \subseteq Fired)
    /\ ~({"HEAT CRITICAL", "FREEZING"} \subseteq Fired)

C6_Witness ==
    /\ Ran
    /\ widgets.climb_rate > 800 /\ widgets.ambient_temp > 45
    /\ Fired = {"HIGH CLIMB RATE", "HEAT CRITICAL"}

\* C7: every threshold is strict: a slider exactly on its threshold does not
\* raise the rule's alert, and any value past it does.
C7_ThresholdsAreStrict ==
    Ran =>
        /\ (widgets.climb_rate = 800) => ("HIGH CLIMB RATE" \notin Fired)
        /\ (widgets.climb_rate >= 801) => ("HIGH CLIMB RATE" \in Fired)
        /\ (widgets.climb_rate = -500) => ("SINK RATE" \notin Fired)
        /\ (widgets.climb_rate <= -501) => ("SINK RATE" \in Fired)
        /\ (widgets.altitude = 30 \/ widgets.climb_rate = -300) => ("HARD LANDING" \notin Fired)
        /\ (widgets.altitude <= 29 /\ widgets.climb_rate <= -301) => ("HARD LANDING" \in Fired)
        /\ (widgets.payload = 600) => ("OVERWEIGHT" \notin Fired)
        /\ (widgets.payload >= 601) => ("OVERWEIGHT" \in Fired)
        /\ (widgets.altitude = 610) => ("ALTITUDE" \notin Fired)
        /\ (widgets.altitude >= 611) => ("ALTITUDE" \in Fired)
        /\ (widgets.ambient_temp = 45) => ("HEAT CRITICAL" \notin Fired)
        /\ (widgets.ambient_temp >= 46) => ("HEAT CRITICAL" \in Fired)
        /\ (widgets.ambient_temp = -10) => ("FREEZING" \notin Fired)
        /\ (widgets.ambient_temp <= -11) => ("FREEZING" \in Fired)
        /\ (widgets.soc = 30) => ("RESERVE" \notin Fired)
        /\ (widgets.soc <= 29) => ("RESERVE" \in Fired)
        /\ (widgets.wind_speed = 15) => ("WIND" \notin Fired)
        /\ (widgets.wind_speed >= 16) => ("WIND" \in Fired)

C7_Witness ==
    /\ Ran
    /\ widgets.altitude = 610 /\ widgets.payload = 601
    /\ Fired = {"OVERWEIGHT"}

\* C8: each alert has its rule's severity (st.warning for the high climb
\* rate, the reserve and the wind, st.error for the other six); payload 700
\* and altitude 650 with the rest at default show exactly the overweight and
\* the altitude alert, both with st.error.
C8_SeverityPerRule ==
    Ran =>
        /\ \A b \in Alerts :
              b.kind = (IF b.tag \in {"HIGH CLIMB RATE", "RESERVE", "WIND"}
                        THEN "warning" ELSE "error")
        /\ (widgets.payload = 700 /\ widgets.altitude = 650
              /\ AtDefault(SliderNames \ {"payload", "altitude"}))
              => Alerts = {[kind |-> "error", tag |-> "OVERWEIGHT"],
                           [kind |-> "error", tag |-> "ALTITUDE"]}

C8_Witness ==
    /\ Ran
    /\ widgets.payload = 700 /\ widgets.altitude = 650
    /\ AtDefault(SliderNames \ {"payload", "altitude"})
    /\ Cardinality(Alerts) = 2

\* C9: with one deterministic classifier, a run on the slider values of an
\* earlier run shows what that run showed (class, probabilities, alerts and
\* how the run ended), whatever runs came in between.
C9_SameSnapshotSamePage ==
    (ref # None /\ ref[1].widgets = widgets) => (page = ref[1].page)

C9_Witness ==
    /\ ref # None /\ ref[1].other
    /\ ref[1].widgets = widgets
    /\ Ran /\ page = ref[1].page
    /\ Fired # {}

SixFields(w) == <<w.altitude, w.wind_speed, w.payload, w.ambient_temp, w.soc, w.climb_rate>>

\* C10: two runs that reach the alert block on slider values that agree on
\* altitude, wind speed, payload, ambient temperature, state of charge and
\* climb rate show the same alert column, whatever the battery temperature,
\* the thrust demand and the classifier's answers.
C10_AlertsDependOnSixFieldsOnly ==
    (ref # None /\ Ran /\ ref[1].page.outcome = "ok"
        /\ SixFields(ref[1].widgets) = SixFields(widgets)) =>
        /\ page.banners = ref[1].page.banners
        /\ page.active_alerts = ref[1].page.active_alerts

\* the same alert under two battery temperatures, once Safe and once Unsafe
C10_Witness ==
    /\ ref # None /\ Ran /\ ref[1].page.outcome = "ok"
    /\ SixFields(ref[1].widgets) = SixFields(widgets)
    /\ ref[1].widgets.battery_temp # widgets.battery_temp
    /\ ref[1].page.prediction_label = Some("Safe")
    /\ page.prediction_label = Some("Unsafe")
    /\ page.probabilities # ref[1].page.probabilities
    /\ [kind |-> "error", tag |-> "OVERWEIGHT"] \in Alerts

\* a page that shows Safe above a st.error alert
SafeWithCriticalAlert ==
    Ran /\ page.prediction_label = Some("Safe") /\ \E b \in Alerts : b.kind = "error"

\* a page that shows Unsafe above the nominal status
UnsafeWithNominalStatus ==
    Ran /\ page.prediction_label = Some("Unsafe") /\ NominalShown
====
